---------------------------- MODULE Spec2Model ----------------------------
(***************************************************************************)
(* A model of prometheus-decoder (src/main.go): the record stream reader   *)
(* (streamingJSONDecoder), the decode pipeline (snappy, protobuf), the     *)
(* reshape (convertToReadableJSON), the time conversion                    *)
(* (humanReadableTime) and the run of main with its two file handles.      *)
(***************************************************************************)
EXTENDS Integers, Sequences, FiniteSets, TLC

VARIABLES
    inputFile,    \* flag -input  (main.go:113)
    outputFile,   \* flag -output (main.go:114)
    prettyPrint,  \* flag -pretty (main.go:115)
    humanTime,    \* flag -human-time (main.go:116)
    pc,           \* position of main
    exitCode,     \* -1 while running, else the process's exit status
    file,         \* the input handle: "nil", "open", "closed"
    output,       \* the output handle: "nil", "stdout", "open", "closed"
    opened,       \* how often each handle was acquired
    deferred,     \* main's stack of deferred calls, last pushed first
    stream,       \* the content of the input: a sequence of JSON values
    decoder,      \* the streamingJSONDecoder: [decoder |-> [pos, err], count]
    record,       \* main's local record (main.go:151)
    err,          \* main's local err    (main.go:151)
    stdout,       \* lines written with fmt.Printf / fmt.Println
    outfile,      \* lines written to a created output file
    rets,         \* reader harness: what each call of next() returned
    wreq,         \* reshape harness: the prompb.WriteRequest given
    jsonStruct,   \* reshape harness: what convertToReadableJSON returned
    timestamp,    \* time harness: the int64 given
    instant       \* time harness: the time.Time humanReadableTime formats

vars == <<inputFile, outputFile, prettyPrint, humanTime, pc, exitCode, file,
          output, opened, deferred, stream, decoder, record, err, stdout,
          outfile, rets, wreq, jsonStruct, timestamp, instant>>

-----------------------------------------------------------------------------
(* Bounds of the model. *)

MaxRecords == 3   \* JSON values in an input stream
MaxCalls == 5     \* calls of next() the reader harness makes
MaxRepeat == 2    \* identical consecutive stdout lines kept (a longer run is cut)
MaxSeries == 2    \* series of a write request (reshape harness)
MaxSamples == 2   \* samples of a series (reshape harness)
MaxLabels == 3    \* labels of a series (label harness)
MaxMs == 1500     \* |timestamp| in the time harness

SeqsUpTo(S, n) == UNION {[1..k -> S] : k \in 0..n}

-----------------------------------------------------------------------------
(* prompb.WriteRequest values.  A float64 is a token; "NaN" is the one     *)
(* non-finite value used (Prometheus' staleness marker is a NaN).          *)

LabelNames == {"a", "b"}
LabelValues == {"1", "2", "3"}
Labels == [Name : LabelNames, Value : LabelValues]

L(n, v) == [Name |-> n, Value |-> v]
S(t, v) == [Timestamp |-> t, Value |-> v]

\* Samples of the reshape harness: two share a timestamp, one is not finite.
SamplePool == {S(5, "1.5"), S(-1, "NaN"), S(5, "2.5")}

\* Write requests of the reshape harness: up to MaxSeries series, each with
\* at most one label and up to MaxSamples samples.
ReshapeSeries ==
    {[Labels |-> l, Samples |-> s] :
        l \in {<<>>, <<L("a", "1")>>}, s \in SeqsUpTo(SamplePool, MaxSamples)}

ReshapeRequests == SeqsUpTo(ReshapeSeries, MaxSeries)

\* Write requests of the label harness: one series, up to MaxLabels labels.
LabelRequests ==
    {<<[Labels |-> l, Samples |-> <<S(5, "1.5")>>]>> :
        l \in SeqsUpTo(Labels, MaxLabels)}

\* The write requests the input streams of main carry.
WreqDup ==
    <<[Labels |-> <<L("a", "1"), L("b", "2"), L("a", "3")>>,
       Samples |-> <<S(1123, "1.5"), S(-1, "2.5")>>]>>

WreqStale == <<[Labels |-> <<L("a", "1")>>, Samples |-> <<S(5, "NaN")>>]>>

Payloads == {WreqDup, WreqStale}

-----------------------------------------------------------------------------
(* convertToReadableJSON (main.go:51-79).                                  *)

RECURSIVE setLabels(_, _, _)
\* The loop of main.go:59-61 from index i on: labels[label.Name] = label.Value.
\* A Go map is a function on the set of its keys.
setLabels(labels, ls, i) ==
    IF i > Len(ls) THEN labels
    ELSE setLabels(
            [n \in DOMAIN labels \cup {ls[i].Name} |->
                IF n = ls[i].Name THEN ls[i].Value ELSE labels[n]],
            ls, i + 1)

EmptyMap == [n \in {} |-> ""]

\* A faulty variant of labelsOf: a name already present is not overwritten.
RECURSIVE setLabelsFirstWins(_, _, _)
setLabelsFirstWins(labels, ls, i) ==
    IF i > Len(ls) THEN labels
    ELSE setLabelsFirstWins(
            [n \in DOMAIN labels \cup {ls[i].Name} |->
                IF n \in DOMAIN labels THEN labels[n] ELSE ls[i].Value],
            ls, i + 1)

labelsFirstWins(ts) == setLabelsFirstWins(EmptyMap, ts.Labels, 1)

\* main.go:58-61
labelsOf(ts) == setLabels(EmptyMap, ts.Labels, 1)

\* main.go:64-69: both slices are made with len(ts.Samples) and filled by index.
timestampsOf(ts) == [j \in 1..Len(ts.Samples) |-> ts.Samples[j].Timestamp]
valuesOf(ts) == [j \in 1..Len(ts.Samples) |-> ts.Samples[j].Value]

\* A faulty variant of seriesOf: the slices are made with a length and then appended
\* to, so that the samples follow len(ts.Samples) zero values.
seriesAppended(ts) ==
    [Labels |-> labelsOf(ts),
     Timestamps |-> [j \in 1..Len(ts.Samples) |-> 0] \o timestampsOf(ts),
     Values |-> valuesOf(ts)]

\* main.go:56-75: the TimeSeries built for one series
seriesOf(ts) ==
    [Labels |-> labelsOf(ts),
     Timestamps |-> timestampsOf(ts),
     Values |-> valuesOf(ts)]

\* main.go:51-79
convertToReadableJSON(w) ==
    [Timeseries |-> [i \in 1..Len(w) |-> seriesOf(w[i])]]

-----------------------------------------------------------------------------
(* humanReadableTime (main.go:81-85).  Go's / truncates toward zero and %  *)
(* takes the sign of the dividend; time.Unix brings nsec into [0, 1e9).    *)
(* With |timestamp % 1000| <= 999 no int64 product or sum here overflows.  *)

GoDiv(a, b) == IF a >= 0 THEN a \div b ELSE -((-a) \div b)
GoRem(a, b) == a - b * GoDiv(a, b)

\* time.Unix(sec, nsec): the instant [sec, nsec] with 0 <= nsec < 1e9.
timeUnix(sec, nsec) ==
    IF nsec < 0 \/ nsec >= 1000000000
    THEN LET n == GoDiv(nsec, 1000000000)
             s1 == sec + n
             ns1 == nsec - n * 1000000000
         IN IF ns1 < 0 THEN [sec |-> s1 - 1, nsec |-> ns1 + 1000000000]
            ELSE [sec |-> s1, nsec |-> ns1]
    ELSE [sec |-> sec, nsec |-> nsec]

\* A faulty variant of humanReadableTime: the remainder is scaled to microseconds.
humanReadableTimeMicros(t) == timeUnix(GoDiv(t, 1000), GoRem(t, 1000) * 1000)

\* main.go:82-85: the instant that Format(time.RFC3339Nano) renders
humanReadableTime(t) == timeUnix(GoDiv(t, 1000), GoRem(t, 1000) * 1000000)

-----------------------------------------------------------------------------
(* The input: a sequence of JSON values.  What json.Decoder.Decode makes   *)
(* of a value decides its kind:                                            *)
(*   "ok"       an object that unmarshals into PrometheusRecord;           *)
(*   "typeerr"  a complete value that does not (say {"b": 5}): Decode      *)
(*              consumes it and returns an error it does not keep;         *)
(*   "syntax"   not JSON: Decode returns a SyntaxError and keeps it;       *)
(*   "trunc"    the input ends inside the value: io.ErrUnexpectedEOF, kept.*)
(* A record's Body is snappy(proto(write request)) or a corruption of it.  *)

Body(snappyOK, protoOK, msg) ==
    [snappyOK |-> snappyOK, protoOK |-> protoOK, msg |-> msg]

GoodBody(w) == Body(TRUE, TRUE, w)
BadSnappy == Body(FALSE, FALSE, <<>>)   \* not a snappy block
BadProto == Body(TRUE, FALSE, <<>>)     \* snappy of bytes that are no message

NilBody == Body(FALSE, FALSE, <<>>)
NilRecord == [Body |-> NilBody]

Value(kind, body) == [json |-> kind, body |-> body]

Values ==
    {Value("ok", GoodBody(w)) : w \in Payloads}
        \cup {Value("ok", BadSnappy), Value("ok", BadProto)}
        \cup {Value(k, NilBody) : k \in {"typeerr", "syntax", "trunc"}}

\* A truncated value is the last one of its stream.
Streams ==
    {s \in SeqsUpTo(Values, MaxRecords) :
        \A i \in 1..Len(s) : s[i].json = "trunc" => i = Len(s)}

-----------------------------------------------------------------------------
(* The record stream reader (main.go:88-110).                              *)

\* json.NewDecoder(r) (main.go:94): at the first value, no error kept.
NewDecoder == [pos |-> 1, err |-> "nil"]

\* s.decoder.Decode(&record) (main.go:105): the decoder after the call, the
\* record and the error.  An error the decoder keeps (EOF, SyntaxError,
\* ErrUnexpectedEOF) is what every later call returns.
Decode(in, dec) ==
    IF dec.err # "nil"
    THEN [dec |-> dec, record |-> NilRecord, err |-> dec.err]
    ELSE IF dec.pos > Len(in)
    THEN [dec |-> [dec EXCEPT !.err = "EOF"], record |-> NilRecord, err |-> "EOF"]
    ELSE LET v == in[dec.pos] IN
         CASE v.json = "ok" ->
                [dec |-> [dec EXCEPT !.pos = @ + 1],
                 record |-> [Body |-> v.body], err |-> "nil"]
           [] v.json = "typeerr" ->
                [dec |-> [dec EXCEPT !.pos = @ + 1],
                 record |-> NilRecord, err |-> "UnmarshalTypeError"]
           [] v.json = "syntax" ->
                [dec |-> [dec EXCEPT !.err = "SyntaxError"],
                 record |-> NilRecord, err |-> "SyntaxError"]
           [] OTHER ->
                [dec |-> [dec EXCEPT !.err = "ErrUnexpectedEOF"],
                 record |-> NilRecord, err |-> "ErrUnexpectedEOF"]

\* newStreamingJSONDecoder (main.go:93-101)
newStreamingJSONDecoder == [decoder |-> NewDecoder, count |-> 0]

\* A faulty variant of next: s.count++ stands before the call of Decode.
nextCountFirst(in, s) ==
    LET r == Decode(in, s.decoder) IN
    [s |-> [decoder |-> r.dec, count |-> s.count + 1],
     record |-> r.record, err |-> r.err]

\* A faulty variant of next: s.count++ is missing.
nextNoCount(in, s) ==
    LET r == Decode(in, s.decoder) IN
    [s |-> [decoder |-> r.dec, count |-> s.count],
     record |-> r.record, err |-> r.err]

\* streamingJSONDecoder.next (main.go:103-110): the reader after the call,
\* the record and the error.
next(in, s) ==
    LET r == Decode(in, s.decoder) IN
    IF r.err # "nil"
    THEN [s |-> [decoder |-> r.dec, count |-> s.count],
          record |-> NilRecord, err |-> r.err]
    ELSE [s |-> [decoder |-> r.dec, count |-> s.count + 1],
          record |-> r.record, err |-> "nil"]

-----------------------------------------------------------------------------
(* The decode pipeline (main.go:33-48) and the encoding of a document.     *)

\* A faulty variant of decodePrompbWriteReq: the error of proto.Unmarshal is dropped.
decodeIgnoringUnmarshalError(rec) ==
    IF ~rec.Body.snappyOK
    THEN [wreq |-> <<>>, err |-> "snappy decode error"]
    ELSE [wreq |-> rec.Body.msg, err |-> "nil"]

\* decodePrompbWriteReq (main.go:34-48): snappy.Decode, then proto.Unmarshal
decodePrompbWriteReq(rec) ==
    IF ~rec.Body.snappyOK
    THEN [wreq |-> <<>>, err |-> "snappy decode error"]
    ELSE IF ~rec.Body.protoOK
    THEN [wreq |-> <<>>, err |-> "protobuf unmarshal error"]
    ELSE [wreq |-> rec.Body.msg, err |-> "nil"]

\* json.Marshal / json.MarshalIndent (main.go:188-193) return an
\* UnsupportedValueError for a float64 that is NaN or an infinity.
marshalErr(doc) ==
    \E i \in 1..Len(doc.Timeseries) :
        \E j \in 1..Len(doc.Timeseries[i].Values) :
            doc.Timeseries[i].Values[j] = "NaN"

-----------------------------------------------------------------------------
(* Output lines.                                                           *)

NoDoc == [Timeseries |-> <<>>]
NoInstant == [sec |-> 0, nsec |-> 0]

Line(kind, n, j, t, doc, pretty) ==
    [kind |-> kind, n |-> n, j |-> j, t |-> t, doc |-> doc, pretty |-> pretty]

Diag(kind, n) == Line(kind, n, 0, NoInstant, NoDoc, FALSE)

\* main.go:172-184: per series a header line, then one line per sample
RECURSIVE humanTimeLines(_, _, _)
humanTimeLines(doc, n, i) ==
    IF i > Len(doc.Timeseries) THEN <<>>
    ELSE <<Diag("humanHeader", n)>>
         \o [j \in 1..Len(doc.Timeseries[i].Timestamps) |->
                Line("humanSample", n, j - 1,
                     humanReadableTime(doc.Timeseries[i].Timestamps[j]),
                     NoDoc, FALSE)]
         \o humanTimeLines(doc, n, i + 1)

\* main.go:200-201: the index marker, then the document
documentLines(doc, n, pretty) ==
    <<Diag("object", n), Line("doc", n, 0, NoInstant, doc, pretty)>>

\* fmt.Printf to standard output.  The log keeps a run of identical
\* consecutive lines up to MaxRepeat lines long.
Printf(log, line) ==
    IF Len(log) >= MaxRepeat
       /\ \A k \in 0..(MaxRepeat - 1) : log[Len(log) - k] = line
    THEN log
    ELSE Append(log, line)

\* fmt.Fprintf(output, ...): to standard output when no file was created.
Fprint(io, lines) ==
    IF output = "stdout"
    THEN [io EXCEPT !.stdout = @ \o lines]
    ELSE [io EXCEPT !.outfile = @ \o lines]

-----------------------------------------------------------------------------
(* The run of main (main.go:112-205).                                      *)

Flags == <<inputFile, outputFile, prettyPrint, humanTime>>
Handles == <<file, output, opened, deferred>>
Locals == <<record, err>>
Harness == <<rets, wreq, jsonStruct, timestamp, instant>>

IdleHarness ==
    /\ rets = <<>>
    /\ wreq = <<>>
    /\ jsonStruct = NoDoc
    /\ timestamp = 0
    /\ instant = NoInstant

Init ==
    /\ inputFile \in {"", "in.ndjson"}
    /\ outputFile \in {"", "out.json"}
    /\ prettyPrint \in BOOLEAN
    /\ humanTime \in BOOLEAN
    /\ stream \in Streams
    /\ pc = "flags"
    /\ exitCode = -1
    /\ file = "nil"
    /\ output = "nil"
    /\ opened = [input |-> 0, output |-> 0]
    /\ deferred = <<>>
    /\ decoder = newStreamingJSONDecoder
    /\ record = NilRecord
    /\ err = "nil"
    /\ stdout = <<>>
    /\ outfile = <<>>
    /\ IdleHarness

\* os.Exit(1): the process ends at once; deferred calls do not run.
osExit(code) ==
    /\ pc' = "exited"
    /\ exitCode' = code
    /\ UNCHANGED <<Handles, decoder, Locals, outfile>>

\* main.go:119-123
CheckInput ==
    /\ pc = "flags"
    /\ IF inputFile = ""
       THEN /\ stdout' = Printf(stdout, Diag("inputRequired", 0))
            /\ osExit(1)
       ELSE /\ pc' = "open"
            /\ UNCHANGED <<exitCode, Handles, decoder, Locals, stdout, outfile>>
    /\ UNCHANGED <<Flags, stream, Harness>>

\* main.go:126-131: os.Open succeeds or fails
OpenInput ==
    /\ pc = "open"
    /\ \E ok \in BOOLEAN :
        IF ok
        THEN /\ file' = "open"
             /\ opened' = [opened EXCEPT !.input = @ + 1]
             /\ deferred' = <<"file.Close">> \o deferred
             /\ pc' = "prepare"
             /\ UNCHANGED <<exitCode, output, decoder, Locals, stdout, outfile>>
        ELSE /\ stdout' = Printf(stdout, Diag("openError", 0))
             /\ osExit(1)
    /\ UNCHANGED <<Flags, stream, Harness>>

\* main.go:134-147: standard output, or os.Create, which succeeds or fails;
\* then the reader is made.
PrepareOutput ==
    /\ pc = "prepare"
    /\ IF outputFile = ""
       THEN /\ output' = "stdout"
            /\ decoder' = newStreamingJSONDecoder
            /\ pc' = "next"
            /\ UNCHANGED <<exitCode, file, opened, deferred, Locals, stdout, outfile>>
       ELSE \E ok \in BOOLEAN :
            IF ok
            THEN /\ output' = "open"
                 /\ opened' = [opened EXCEPT !.output = @ + 1]
                 /\ deferred' = <<"output.Close">> \o deferred
                 /\ decoder' = newStreamingJSONDecoder
                 /\ pc' = "next"
                 /\ UNCHANGED <<exitCode, file, Locals, stdout, outfile>>
            ELSE /\ stdout' = Printf(stdout, Diag("createError", 0))
                 /\ osExit(1)
    /\ UNCHANGED <<Flags, stream, Harness>>

\* main.go:151: record, err := decoder.next()
CallNext ==
    /\ pc = "next"
    /\ LET r == next(stream, decoder) IN
        /\ decoder' = r.s
        /\ record' = r.record
        /\ err' = r.err
    /\ pc' = "body"
    /\ UNCHANGED <<Flags, stream, exitCode, Handles, stdout, outfile, Harness>>

\* main.go:152-154
BreakOnEOF ==
    /\ pc = "body"
    /\ err = "EOF"
    /\ pc' = "final"
    /\ UNCHANGED <<Flags, stream, exitCode, Handles, decoder, Locals, stdout,
                   outfile, Harness>>

\* main.go:155-158
ParseError ==
    /\ pc = "body"
    /\ err \notin {"EOF", "nil"}
    /\ stdout' = Printf(stdout, Diag("parseError", decoder.count))
    /\ pc' = "next"
    /\ UNCHANGED <<Flags, stream, exitCode, Handles, decoder, Locals, outfile,
                   Harness>>

\* main.go:161-165
DecodeError ==
    /\ pc = "body"
    /\ err = "nil"
    /\ decodePrompbWriteReq(record).err # "nil"
    /\ stdout' = Printf(stdout, Diag("decodeError", decoder.count))
    /\ pc' = "next"
    /\ UNCHANGED <<Flags, stream, exitCode, Handles, decoder, Locals, outfile,
                   Harness>>

\* The document of the record at hand (main.go:168) and the lines written
\* to output before it is encoded (main.go:171-185).
Document == convertToReadableJSON(decodePrompbWriteReq(record).wreq)

Annotated(io) ==
    IF humanTime
    THEN Fprint(io, humanTimeLines(Document, decoder.count, 1))
    ELSE io

\* main.go:168-198: the document cannot be encoded
EncodeError ==
    /\ pc = "body"
    /\ err = "nil"
    /\ decodePrompbWriteReq(record).err = "nil"
    /\ marshalErr(Document)
    /\ LET io == Annotated([stdout |-> stdout, outfile |-> outfile]) IN
        /\ stdout' = Printf(io.stdout, Diag("encodeError", decoder.count))
        /\ outfile' = io.outfile
    /\ pc' = "next"
    /\ UNCHANGED <<Flags, stream, exitCode, Handles, decoder, Locals, Harness>>

\* main.go:168-201: the document is written after its index marker
WriteDocument ==
    /\ pc = "body"
    /\ err = "nil"
    /\ decodePrompbWriteReq(record).err = "nil"
    /\ ~marshalErr(Document)
    /\ LET io == Fprint(Annotated([stdout |-> stdout, outfile |-> outfile]),
                        documentLines(Document, decoder.count, prettyPrint)) IN
        /\ stdout' = io.stdout
        /\ outfile' = io.outfile
    /\ pc' = "next"
    /\ UNCHANGED <<Flags, stream, exitCode, Handles, decoder, Locals, Harness>>

\* main.go:204 and the return of main: the total is printed, then the
\* deferred calls run (main.go:131, 143), last pushed first.
Finish ==
    /\ pc = "final"
    /\ stdout' = Printf(stdout, Diag("total", decoder.count))
    /\ file' = IF \E k \in 1..Len(deferred) : deferred[k] = "file.Close"
               THEN "closed" ELSE file
    /\ output' = IF \E k \in 1..Len(deferred) : deferred[k] = "output.Close"
                 THEN "closed" ELSE output
    /\ deferred' = <<>>
    /\ pc' = "exited"
    /\ exitCode' = 0
    /\ UNCHANGED <<Flags, stream, opened, decoder, Locals, outfile, Harness>>

Next ==
    \/ CheckInput
    \/ OpenInput
    \/ PrepareOutput
    \/ CallNext
    \/ BreakOnEOF
    \/ ParseError
    \/ DecodeError
    \/ EncodeError
    \/ WriteDocument
    \/ Finish

Spec == Init /\ [][Next]_vars

\* main is one sequential process: while it has a step to take, it takes it.
FairSpec == Spec /\ WF_vars(Next)

-----------------------------------------------------------------------------
(* Harnesses: a caller of next() that never stops asking, and callers of   *)
(* the two pure functions on every input of a bounded set.                 *)

IdleMain ==
    /\ inputFile = ""
    /\ outputFile = ""
    /\ prettyPrint = TRUE
    /\ humanTime = FALSE
    /\ exitCode = -1
    /\ file = "nil"
    /\ output = "nil"
    /\ opened = [input |-> 0, output |-> 0]
    /\ deferred = <<>>
    /\ decoder = newStreamingJSONDecoder
    /\ record = NilRecord
    /\ err = "nil"
    /\ stdout = <<>>
    /\ outfile = <<>>

Main == <<Flags, exitCode, Handles, Locals, stdout, outfile>>

ReaderInit ==
    /\ IdleMain
    /\ IdleHarness
    /\ stream \in Streams
    /\ pc = "reader"

\* One call of next() (main.go:103-110); the harness notes what it returned
\* and the counter it left.
ReaderCall ==
    /\ pc = "reader"
    /\ Len(rets) < MaxCalls
    /\ LET r == next(stream, decoder) IN
        /\ decoder' = r.s
        /\ rets' = Append(rets, [err |-> r.err, record |-> r.record,
                                 count |-> r.s.count])
    /\ UNCHANGED <<Main, stream, pc, wreq, jsonStruct, timestamp, instant>>

ReaderSpec == ReaderInit /\ [][ReaderCall]_vars

ReshapeInit ==
    /\ IdleMain
    /\ rets = <<>>
    /\ timestamp = 0
    /\ instant = NoInstant
    /\ stream = <<>>
    /\ wreq \in ReshapeRequests \cup LabelRequests
    /\ jsonStruct = NoDoc
    /\ pc = "reshape"

\* jsonStruct := convertToReadableJSON(wreq) (main.go:168)
Convert ==
    /\ pc = "reshape"
    /\ jsonStruct' = convertToReadableJSON(wreq)
    /\ pc' = "reshaped"
    /\ UNCHANGED <<Main, stream, decoder, rets, wreq, timestamp, instant>>

ReshapeSpec == ReshapeInit /\ [][Convert]_vars

TimeInit ==
    /\ IdleMain
    /\ rets = <<>>
    /\ wreq = <<>>
    /\ jsonStruct = NoDoc
    /\ stream = <<>>
    /\ timestamp \in (-MaxMs)..MaxMs
    /\ instant = NoInstant
    /\ pc = "time"

\* humanReadableTime(ts) (main.go:175)
Render ==
    /\ pc = "time"
    /\ instant' = humanReadableTime(timestamp)
    /\ pc' = "timed"
    /\ UNCHANGED <<Main, stream, decoder, rets, wreq, jsonStruct, timestamp>>

TimeSpec == TimeInit /\ [][Render]_vars

-----------------------------------------------------------------------------
(* What the claims speak of.                                               *)

\* The lines the output sink received.
Sink == IF outputFile = "" THEN stdout ELSE outfile

IsDoc(l) == l.kind = "doc"
IsSkipDiag(l) == l.kind \in {"parseError", "decodeError"}

\* main returned: the loop was left and the total printed.
Returned == pc = "exited" /\ exitCode = 0

\* The loop is between two records: every value before the decoder's
\* position has been dealt with.
BetweenRecords == pc \in {"next", "final"} \/ Returned

\* Read off the input, not off the pipeline: the value at hand is a record
\* whose payload decompresses and deserializes; its samples are all finite.
Decodable(v) == v.json = "ok" /\ v.body.snappyOK /\ v.body.protoOK
Finite(v) ==
    \A i \in 1..Len(v.body.msg) :
        \A j \in 1..Len(v.body.msg[i].Samples) :
            v.body.msg[i].Samples[j].Value # "NaN"
Skipped(v) == v.json # "ok" \/ ~v.body.snappyOK \/ ~v.body.protoOK

\* The number of records among the first k values of the stream.
ParsedUpTo(k) == Cardinality({i \in 1..k : stream[i].json = "ok"})

\* The documents due for the first k values, each with the number of its
\* index marker: one per decodable record, or, with finiteOnly, one per
\* decodable record whose samples are all finite.
RECURSIVE DocumentsDue(_, _)
DocumentsDue(k, finiteOnly) ==
    IF k = 0 THEN <<>>
    ELSE DocumentsDue(k - 1, finiteOnly)
         \o (IF Decodable(stream[k]) /\ (finiteOnly => Finite(stream[k]))
             THEN <<[doc |-> [Timeseries |->
                                [i \in 1..Len(stream[k].body.msg) |->
                                    seriesOf(stream[k].body.msg[i])]],
                     n |-> ParsedUpTo(k)]>>
             ELSE <<>>)

\* The documents of the sink in order, each with the number of the line
\* before it when that line is an index marker, and -1 when it is not.
DocumentsWritten ==
    LET at == SelectSeq([i \in 1..Len(Sink) |-> i], LAMBDA i : IsDoc(Sink[i]))
    IN [k \in 1..Len(at) |->
            [doc |-> Sink[at[k]].doc,
             n |-> IF at[k] > 1 /\ Sink[at[k] - 1].kind = "object"
                   THEN Sink[at[k] - 1].n ELSE -1]]

-----------------------------------------------------------------------------
(* The claims.                                                             *)

\* C1: when the run has ended, the count of the final line equals the number
\* of records fully processed, that is, of documents written.
C1_TotalCountsDocuments ==
    Returned =>
        /\ stdout[Len(stdout)].kind = "total"
        /\ stdout[Len(stdout)].n = Len(DocumentsWritten)

\* C2: once the loop is entered it is eventually left and the final total
\* line printed, whatever the records of the (finite) stream are.
C2_LoopTerminates ==
    (pc = "next") ~> (Returned /\ stdout[Len(stdout)].kind = "total")

\* C3: when the run has ended, every skipped record (framing, decompression
\* or deserialization failure) has exactly one diagnostic line carrying its
\* own 1-based position in the stream.
C3_OneDiagnosticWithOwnNumber ==
    Returned =>
        \A p \in 1..Len(stream) :
            Skipped(stream[p]) =>
                Cardinality({i \in 1..Len(stdout) :
                    IsSkipDiag(stdout[i]) /\ stdout[i].n = p}) = 1

\* C4: convertToReadableJSON(W) has W's series in W's order, and for every
\* series the timestamps and the values are as long as the samples and hold
\* sample j's timestamp and value at j.
C4_ReshapeKeepsSamples ==
    pc = "reshaped" =>
        /\ Len(jsonStruct.Timeseries) = Len(wreq)
        /\ \A i \in 1..Len(wreq) :
            LET d == jsonStruct.Timeseries[i] IN
            /\ Len(d.Timestamps) = Len(wreq[i].Samples)
            /\ Len(d.Values) = Len(wreq[i].Samples)
            /\ \A j \in 1..Len(wreq[i].Samples) :
                /\ d.Timestamps[j] = wreq[i].Samples[j].Timestamp
                /\ d.Values[j] = wreq[i].Samples[j].Value

C4_Witness ==
    /\ pc = "reshaped"
    /\ Len(wreq) = 2
    /\ wreq[1].Samples = <<S(5, "1.5"), S(-1, "NaN")>>
    /\ wreq[2].Samples = <<S(5, "2.5"), S(5, "2.5")>>
    /\ jsonStruct.Timeseries[1].Timestamps = <<5, -1>>
    /\ jsonStruct.Timeseries[2].Values = <<"2.5", "2.5">>

\* C5: the label mapping of a series has exactly the names of its label list
\* as keys, and each name maps to the value of its last occurrence.
C5_LastWriteWins ==
    pc = "reshaped" =>
        \A i \in 1..Len(wreq) :
            LET ls == wreq[i].Labels
                m == jsonStruct.Timeseries[i].Labels
            IN /\ DOMAIN m = {ls[k].Name : k \in 1..Len(ls)}
               /\ \A k \in 1..Len(ls) :
                    (\A k2 \in (k + 1)..Len(ls) : ls[k2].Name # ls[k].Name)
                        => m[ls[k].Name] = ls[k].Value

C5_Witness ==
    /\ pc = "reshaped"
    /\ Len(wreq) = 1
    /\ wreq[1].Labels = <<L("a", "1"), L("b", "2"), L("a", "3")>>
    /\ jsonStruct.Timeseries[1].Labels["a"] = "3"
    /\ jsonStruct.Timeseries[1].Labels["b"] = "2"

\* C6 as stated: between two records, the sink holds one document per
\* decodable record read so far and none for another, in input order, each
\* right after its index marker, each the reshape of its own record.
C6_OneDocumentPerDecodedRecord ==
    BetweenRecords =>
        DocumentsWritten = DocumentsDue(decoder.decoder.pos - 1, FALSE)

\* C6 as amended: the same, for the decodable records whose samples are all
\* finite; a record with a NaN sample cannot be encoded and has no document.
C6_OneDocumentPerEncodableRecord ==
    BetweenRecords =>
        DocumentsWritten = DocumentsDue(decoder.decoder.pos - 1, TRUE)

C6_Witness ==
    /\ Returned
    /\ Len(stream) = 3
    /\ ~stream[1].body.snappyOK
    /\ stream[2].body.msg = WreqDup
    /\ stream[3].body.msg = WreqStale
    /\ Len(DocumentsWritten) = 1
    /\ DocumentsWritten[1].n = 2

\* C7: once next() has returned end of stream, no later call returns a
\* record, and the counter stays what it was.
C7_NothingAfterEOF ==
    \A i \in 1..Len(rets) :
        rets[i].err = "EOF" =>
            /\ decoder.count = rets[i].count
            /\ \A j \in (i + 1)..Len(rets) :
                /\ rets[j].err # "nil"
                /\ rets[j].record = NilRecord
                /\ rets[j].count = rets[i].count

C7_Witness ==
    /\ Len(rets) = 4
    /\ rets[1].err = "nil"
    /\ rets[2].err = "EOF"
    /\ rets[4].err = "EOF"
    /\ decoder.count = 1

\* C8: the counter equals the number of calls of next() that returned a
\* record: 0 at first, one more after such a call, unchanged by a call that
\* returned a failure or end of stream, never reset or decreased.
C8_CountIsRecordsReturned ==
    /\ decoder.count = Cardinality({i \in 1..Len(rets) : rets[i].err = "nil"})
    /\ \A i \in 1..Len(rets) :
        LET before == IF i = 1 THEN 0 ELSE rets[i - 1].count IN
        rets[i].count = IF rets[i].err = "nil" THEN before + 1 ELSE before

C8_Witness ==
    /\ Len(rets) = 4
    /\ rets[1].err = "nil"
    /\ rets[2].err = "UnmarshalTypeError"
    /\ rets[3].err = "nil"
    /\ rets[4].err = "EOF"
    /\ decoder.count = 2

\* C9: the instant humanReadableTime(t) renders has floor(t / 1000) seconds
\* and (t mod 1000) * 1,000,000 nanoseconds, so it is t milliseconds from
\* the epoch, for negative t too.
C9_InstantIsTimestamp ==
    pc = "timed" =>
        /\ instant.sec = timestamp \div 1000
        /\ instant.nsec = (timestamp % 1000) * 1000000
        /\ instant.sec * 1000 + instant.nsec \div 1000000 = timestamp

C9_Witness ==
    /\ pc = "timed"
    /\ timestamp = -1
    /\ instant = [sec |-> -1, nsec |-> 999000000]

\* C10: when the process has ended, every file handle that was acquired has
\* been closed, and each was acquired at most once.
C10_HandlesReleasedAtExit ==
    pc = "exited" =>
        /\ file # "open"
        /\ output # "open"
        /\ opened.input <= 1
        /\ opened.output <= 1

=============================================================================
